---- MODULE Spec2Model ----
(***************************************************************************)
(* Model of src/main.py: the Cloud Storage event handler process_gcs_event *)
(* that republishes three metadata fields of a storage notification on a   *)
(* Pub/Sub topic.                                                          *)
(*                                                                         *)
(* Text is a sequence of Unicode code points, bytes a sequence of 0..255.  *)
(* The conversions the handler performs (bytes.decode('utf-8'),            *)
(* json.loads, json.dumps, str.encode('utf-8')) are computed, so that the  *)
(* round trips of the claims are decided by the computation.               *)
(***************************************************************************)
EXTENDS Integers, Sequences, FiniteSets, TLC

(***************************************************************************)
(* Characters                                                              *)
(***************************************************************************)

\* The printable ASCII characters, code points 32..126, in order (the grave
\* accent, code point 96, is spelled out).
Printable ==
  << " ", "!", "\"", "#", "$", "%", "&", "'", "(", ")", "*", "+", ",", "-", ".", "/",
     "0", "1", "2", "3", "4", "5", "6", "7", "8", "9", ":", ";", "<", "=", ">", "?",
     "@", "A", "B", "C", "D", "E", "F", "G", "H", "I", "J", "K", "L", "M", "N", "O",
     "P", "Q", "R", "S", "T", "U", "V", "W", "X", "Y", "Z", "[", "\\", "]", "^", "_",
     "GRAVE", "a", "b", "c", "d", "e", "f", "g", "h", "i", "j", "k", "l", "m", "n", "o",
     "p", "q", "r", "s", "t", "u", "v", "w", "x", "y", "z", "{", "|", "}", "~" >>

\* Code point of a printable ASCII character.
Ord(c) == 31 + (CHOOSE k \in 1..Len(Printable) : Printable[k] = c)

\* A text given by its characters.
Str(cs) == [k \in 1..Len(cs) |-> Ord(cs[k])]

\* Concatenation of a sequence of sequences (by halves, which keeps the
\* evaluation shallow).
RECURSIVE Concat(_)
Concat(ss) ==
  IF Len(ss) = 0 THEN <<>>
  ELSE IF Len(ss) = 1 THEN ss[1]
  ELSE LET h == Len(ss) \div 2
       IN Concat(SubSeq(ss, 1, h)) \o Concat(SubSeq(ss, h + 1, Len(ss)))

(***************************************************************************)
(* UTF-8: str.encode('utf-8') and bytes.decode('utf-8') (strict)           *)
(***************************************************************************)

\* The UTF-8 bytes of one code point (surrogates cannot be encoded and are
\* not produced by the model).
EncodeCodePoint(c) ==
  IF c < 128 THEN << c >>
  ELSE IF c < 2048 THEN << 192 + (c \div 64), 128 + (c % 64) >>
  ELSE IF c < 65536 THEN << 224 + (c \div 4096), 128 + ((c \div 64) % 64), 128 + (c % 64) >>
  ELSE << 240 + (c \div 262144), 128 + ((c \div 4096) % 64),
          128 + ((c \div 64) % 64), 128 + (c % 64) >>

Utf8Encode(text) == Concat([k \in 1..Len(text) |-> EncodeCodePoint(text[k])])

\* Whether position i of b holds a continuation byte.
IsCont(b, i) == i <= Len(b) /\ b[i] >= 128 /\ b[i] <= 191

\* The length of the sequence a byte starts, 0 for a byte that starts none
\* (a continuation byte, 0xC0, 0xC1, 0xF5 and above).
SeqLen(x) ==
  IF x < 128 THEN 1
  ELSE IF x >= 194 /\ x <= 223 THEN 2
  ELSE IF x >= 224 /\ x <= 239 THEN 3
  ELSE IF x >= 240 /\ x <= 244 THEN 4
  ELSE 0

\* Whether a whole sequence starts at i: its continuation bytes follow, it
\* is no overlong form, no surrogate and no code point above 0x10FFFF, and
\* no further continuation byte follows it.
WellFormedAt(b, i) ==
  LET x == b[i] n == SeqLen(x) IN
  /\ n > 0
  /\ \A k \in 1..(n - 1) : IsCont(b, i + k)
  /\ ~IsCont(b, i + n)
  /\ (x = 224 => b[i + 1] >= 160) /\ (x = 237 => b[i + 1] <= 159)
  /\ (x = 240 => b[i + 1] >= 144) /\ (x = 244 => b[i + 1] <= 143)

\* The code point of the well-formed sequence that starts at i.
CodePointAt(b, i) ==
  LET x == b[i] n == SeqLen(x) IN
  IF n = 1 THEN x
  ELSE IF n = 2 THEN (x - 192) * 64 + (b[i + 1] - 128)
  ELSE IF n = 3 THEN (x - 224) * 4096 + (b[i + 1] - 128) * 64 + (b[i + 2] - 128)
  ELSE (x - 240) * 262144 + (b[i + 1] - 128) * 4096 + (b[i + 2] - 128) * 64 + (b[i + 3] - 128)

\* Strict decoding: [ok |-> TRUE, text |-> ...], or [ok |-> FALSE]
\* (UnicodeDecodeError) when the bytes are not a run of well-formed sequences.
Utf8Decode(b) ==
  IF IsCont(b, 1) \/ \E i \in 1..Len(b) : ~IsCont(b, i) /\ ~WellFormedAt(b, i)
    THEN [ok |-> FALSE]
    ELSE [ok |-> TRUE,
          text |-> SelectSeq([i \in 1..Len(b) |-> IF IsCont(b, i) THEN 0 - 1 ELSE CodePointAt(b, i)],
                             LAMBDA c : c >= 0)]

(***************************************************************************)
(* Python values as json.loads produces them and json.dumps accepts them   *)
(***************************************************************************)

None == [t |-> "None"]
PyStr(s) == [t |-> "str", s |-> s]
PyInt(n) == [t |-> "int", n |-> n]
PyBool(b) == [t |-> "bool", b |-> b]
PyList(items) == [t |-> "list", items |-> items]
\* A dict keeps its keys in insertion order; get is by key.
PyDict(keys, val) == [t |-> "dict", keys |-> keys, val |-> val]
EmptyDict == PyDict(<<>>, <<>>)

IsDict(v) == v.t = "dict"

IndexOf(keys, k) == CHOOSE j \in 1..Len(keys) : keys[j] = k
HasKey(d, k) == \E j \in 1..Len(d.keys) : d.keys[j] = k

\* dict.get(k): the value of k, None when k is absent.
Get(d, k) == IF HasKey(d, k) THEN d.val[IndexOf(d.keys, k)] ELSE None

\* d[k] = v: a new key is appended, an existing key keeps its position.
SetItem(d, k, v) ==
  IF HasKey(d, k)
    THEN PyDict(d.keys, [d.val EXCEPT ![IndexOf(d.keys, k)] = v])
    ELSE PyDict(Append(d.keys, k), Append(d.val, v))

\* Python's == on dicts ignores the insertion order.
DictEq(a, b) ==
  /\ IsDict(a) /\ IsDict(b)
  /\ {a.keys[j] : j \in 1..Len(a.keys)} = {b.keys[j] : j \in 1..Len(b.keys)}
  /\ \A j \in 1..Len(a.keys) : Get(b, a.keys[j]) = a.val[j]

(***************************************************************************)
(* json.dumps (default arguments: ensure_ascii, separators ", " and ": ")  *)
(***************************************************************************)

HexDigits == Str(<< "0", "1", "2", "3", "4", "5", "6", "7",
                    "8", "9", "a", "b", "c", "d", "e", "f" >>)

\* The escape \uXXXX of a code point below 65536.
EscapeU(c) ==
  Str(<< "\\", "u" >>) \o << HexDigits[((c \div 4096) % 16) + 1], HexDigits[((c \div 256) % 16) + 1],
                             HexDigits[((c \div 16) % 16) + 1], HexDigits[(c % 16) + 1] >>

\* One character of a string as json.dumps writes it.
EscapeChar(c) ==
  IF c = Ord("\"") THEN Str(<< "\\", "\"" >>)
  ELSE IF c = Ord("\\") THEN Str(<< "\\", "\\" >>)
  ELSE IF c = 8 THEN Str(<< "\\", "b" >>)
  ELSE IF c = 9 THEN Str(<< "\\", "t" >>)
  ELSE IF c = 10 THEN Str(<< "\\", "n" >>)
  ELSE IF c = 12 THEN Str(<< "\\", "f" >>)
  ELSE IF c = 13 THEN Str(<< "\\", "r" >>)
  ELSE IF c >= 32 /\ c <= 126 THEN << c >>
  ELSE IF c < 65536 THEN EscapeU(c)
  ELSE EscapeU(55296 + ((c - 65536) \div 1024)) \o EscapeU(56320 + ((c - 65536) % 1024))

DumpsStr(text) ==
  << Ord("\"") >> \o Concat([k \in 1..Len(text) |-> EscapeChar(text[k])]) \o << Ord("\"") >>

RECURSIVE DumpsNat(_)
DumpsNat(n) == IF n < 10 THEN << 48 + n >> ELSE DumpsNat(n \div 10) \o << 48 + (n % 10) >>

DumpsInt(n) == IF n < 0 THEN << Ord("-") >> \o DumpsNat(0 - n) ELSE DumpsNat(n)

\* The items of a sequence of texts joined by ", ".
RECURSIVE JoinComma(_)
JoinComma(parts) ==
  IF parts = <<>> THEN <<>>
  ELSE IF Len(parts) = 1 THEN parts[1]
  ELSE parts[1] \o Str(<< ",", " " >>) \o JoinComma(Tail(parts))

RECURSIVE Dumps(_)
Dumps(v) ==
  IF v.t = "None" THEN Str(<< "n", "u", "l", "l" >>)
  ELSE IF v.t = "bool" THEN (IF v.b THEN Str(<< "t", "r", "u", "e" >>)
                                     ELSE Str(<< "f", "a", "l", "s", "e" >>))
  ELSE IF v.t = "int" THEN DumpsInt(v.n)
  ELSE IF v.t = "str" THEN DumpsStr(v.s)
  ELSE IF v.t = "list"
    THEN << Ord("[") >> \o JoinComma([k \in 1..Len(v.items) |-> Dumps(v.items[k])]) \o << Ord("]") >>
  ELSE << Ord("{") >>
       \o JoinComma([k \in 1..Len(v.keys) |->
                       DumpsStr(v.keys[k]) \o Str(<< ":", " " >>) \o Dumps(v.val[k])])
       \o << Ord("}") >>

(***************************************************************************)
(* json.loads: [ok |-> TRUE, v |-> value] or [ok |-> FALSE]                *)
(* (json.JSONDecodeError).  Numbers are the integers; floats, NaN and      *)
(* Infinity are not among the inputs of the model.                         *)
(***************************************************************************)

Fail == [ok |-> FALSE]
Ok(v, end) == [ok |-> TRUE, v |-> v, end |-> end]

IsWs(c) == c \in {32, 9, 10, 13}
IsDigit(c) == c >= 48 /\ c <= 57

\* The first position at or after i that holds no whitespace.
RECURSIVE SkipWs(_, _)
SkipWs(s, i) == IF i <= Len(s) /\ IsWs(s[i]) THEN SkipWs(s, i + 1) ELSE i

\* Whether s holds the text lit at position i.
StartsWith(s, i, lit) ==
  /\ i + Len(lit) - 1 <= Len(s)
  /\ \A k \in 1..Len(lit) : s[i + k - 1] = lit[k]

HexVal(c) ==
  IF IsDigit(c) THEN c - 48
  ELSE IF c >= 97 /\ c <= 102 THEN c - 87
  ELSE IF c >= 65 /\ c <= 70 THEN c - 55
  ELSE 0 - 1

\* The value of the four hex digits at i..i+3, -1 when they are not four hex digits.
DecodeU(s, i) ==
  IF i + 3 <= Len(s) /\ \A k \in 0..3 : HexVal(s[i + k]) >= 0
    THEN HexVal(s[i]) * 4096 + HexVal(s[i + 1]) * 256 + HexVal(s[i + 2]) * 16 + HexVal(s[i + 3])
    ELSE 0 - 1

\* The character a one-letter escape stands for, -1 for an invalid escape.
Backslash(c) ==
  IF c = Ord("\"") \/ c = Ord("\\") \/ c = Ord("/") THEN c
  ELSE IF c = Ord("b") THEN 8
  ELSE IF c = Ord("f") THEN 12
  ELSE IF c = Ord("n") THEN 10
  ELSE IF c = Ord("r") THEN 13
  ELSE IF c = Ord("t") THEN 9
  ELSE 0 - 1

\* The string whose opening quote is before position i (strict: a control
\* character inside a string is an error).
RECURSIVE ScanString(_, _, _)
ScanString(s, i, acc) ==
  IF i > Len(s) THEN Fail
  ELSE LET c == s[i] IN
    IF c = Ord("\"") THEN Ok(acc, i + 1)
    ELSE IF c < 32 THEN Fail
    ELSE IF c # Ord("\\") THEN ScanString(s, i + 1, Append(acc, c))
    ELSE IF i + 1 > Len(s) THEN Fail
    ELSE IF s[i + 1] # Ord("u")
      THEN (IF Backslash(s[i + 1]) < 0 THEN Fail
            ELSE ScanString(s, i + 2, Append(acc, Backslash(s[i + 1]))))
    ELSE LET uni == DecodeU(s, i + 2) IN
      IF uni < 0 THEN Fail
      ELSE IF uni >= 55296 /\ uni <= 56319 /\ StartsWith(s, i + 6, Str(<< "\\", "u" >>))
              /\ DecodeU(s, i + 8) >= 56320 /\ DecodeU(s, i + 8) <= 57343
        THEN ScanString(s, i + 12,
               Append(acc, 65536 + (uni - 55296) * 1024 + (DecodeU(s, i + 8) - 56320)))
      ELSE ScanString(s, i + 6, Append(acc, uni))

\* The digits from position i on, as a number continuing acc.
RECURSIVE ScanDigits(_, _, _)
ScanDigits(s, i, acc) ==
  IF i <= Len(s) /\ IsDigit(s[i]) THEN ScanDigits(s, i + 1, acc * 10 + (s[i] - 48))
  ELSE Ok(acc, i)

\* The integer of the digits r, negated when neg.
NumberOf(neg, r) == Ok(PyInt(IF neg THEN 0 - r.v ELSE r.v), r.end)

\* -?(0|[1-9][0-9]*) at position i.
ScanNumber(s, i) ==
  LET neg == i <= Len(s) /\ s[i] = Ord("-")
      j == IF neg THEN i + 1 ELSE i
  IN IF j > Len(s) \/ ~IsDigit(s[j]) THEN Fail
     ELSE NumberOf(neg, IF s[j] = 48 THEN Ok(0, j + 1) ELSE ScanDigits(s, j, 0))

\* The str value of a scanned string.
StringValue(r) == IF r.ok THEN Ok(PyStr(r.v), r.end) ELSE Fail

RECURSIVE ScanOnce(_, _)
RECURSIVE ScanMembers(_, _, _)
RECURSIVE ScanItems(_, _, _)

\* An object after the value of the member key: "}" ends it, "," and the
\* opening quote of the next key continue it.
MembersAfterValue(s, d, key, value) ==
  IF ~value.ok THEN Fail
  ELSE LET next == SkipWs(s, value.end) IN
    IF next > Len(s) THEN Fail
    ELSE IF s[next] = Ord("}") THEN Ok(SetItem(d, key.v, value.v), next + 1)
    ELSE IF s[next] # Ord(",") THEN Fail
    ELSE LET q == SkipWs(s, next + 1) IN
      IF q > Len(s) \/ s[q] # Ord("\"") THEN Fail
      ELSE ScanMembers(s, q + 1, SetItem(d, key.v, value.v))

\* An object after the key of a member: ":" and the value follow.
MembersAfterKey(s, d, key) ==
  IF ~key.ok THEN Fail
  ELSE LET colon == SkipWs(s, key.end) IN
    IF colon > Len(s) \/ s[colon] # Ord(":") THEN Fail
    ELSE MembersAfterValue(s, d, key, ScanOnce(s, SkipWs(s, colon + 1)))

\* The members of an object from the key whose opening quote is before i;
\* d holds the members before it.
ScanMembers(s, i, d) == MembersAfterKey(s, d, ScanString(s, i, <<>>))

\* An array after the item value: "]" ends it, "," continues it.
ItemsAfterValue(s, items, value) ==
  IF ~value.ok THEN Fail
  ELSE LET next == SkipWs(s, value.end) IN
    IF next > Len(s) THEN Fail
    ELSE IF s[next] = Ord("]") THEN Ok(PyList(Append(items, value.v)), next + 1)
    ELSE IF s[next] # Ord(",") THEN Fail
    ELSE ScanItems(s, SkipWs(s, next + 1), Append(items, value.v))

\* The items of an array from the value at i; items holds the ones before it.
ScanItems(s, i, items) == ItemsAfterValue(s, items, ScanOnce(s, i))

\* The value that starts at position i.
ScanOnce(s, i) ==
  IF i > Len(s) THEN Fail
  ELSE LET c == s[i] IN
    IF c = Ord("\"") THEN StringValue(ScanString(s, i + 1, <<>>))
    ELSE IF c = Ord("{")
      THEN LET q == SkipWs(s, i + 1) IN
           IF q > Len(s) THEN Fail
           ELSE IF s[q] = Ord("}") THEN Ok(EmptyDict, q + 1)
           ELSE IF s[q] # Ord("\"") THEN Fail
           ELSE ScanMembers(s, q + 1, EmptyDict)
    ELSE IF c = Ord("[")
      THEN LET q == SkipWs(s, i + 1) IN
           IF q > Len(s) THEN Fail
           ELSE IF s[q] = Ord("]") THEN Ok(PyList(<<>>), q + 1)
           ELSE ScanItems(s, q, <<>>)
    ELSE IF StartsWith(s, i, Str(<< "n", "u", "l", "l" >>)) THEN Ok(None, i + 4)
    ELSE IF StartsWith(s, i, Str(<< "t", "r", "u", "e" >>)) THEN Ok(PyBool(TRUE), i + 4)
    ELSE IF StartsWith(s, i, Str(<< "f", "a", "l", "s", "e" >>)) THEN Ok(PyBool(FALSE), i + 5)
    ELSE ScanNumber(s, i)

\* The end of json.loads: anything but whitespace after the value r is an error.
LoadsEnd(text, r) ==
  IF ~r.ok THEN Fail
  ELSE IF SkipWs(text, r.end) # Len(text) + 1 THEN Fail
  ELSE [ok |-> TRUE, v |-> r.v]

\* json.loads(text): a leading byte order mark, no value, or anything but
\* whitespace after the value is an error.
Loads(text) ==
  IF Len(text) > 0 /\ text[1] = 65279 THEN Fail
  ELSE LoadsEnd(text, ScanOnce(text, SkipWs(text, 1)))

(***************************************************************************)
(* The data payload of a CloudEvent: cloud_event.get_data() is None, a     *)
(* dict, bytes or str                                                      *)
(***************************************************************************)

NoData == [k |-> "None"]
DictData(d) == [k |-> "dict", d |-> d]
BytesData(b) == [k |-> "bytes", b |-> b]
StrData(s) == [k |-> "str", s |-> s]

KeyName == Str(<< "n", "a", "m", "e" >>)
KeyBucket == Str(<< "b", "u", "c", "k", "e", "t" >>)
KeySize == Str(<< "s", "i", "z", "e" >>)
KeyContentType == Str(<< "c", "o", "n", "t", "e", "n", "t", "T", "y", "p", "e" >>)
KeyFileName == Str(<< "f", "i", "l", "e", "N", "a", "m", "e" >>)
KeyFileSize == Str(<< "f", "i", "l", "e", "S", "i", "z", "e" >>)
KeyFileFormat == Str(<< "f", "i", "l", "e", "F", "o", "r", "m", "a", "t" >>)

(***************************************************************************)
(* Module state of main.py, set once at import                             *)
(***************************************************************************)

PROJECT_ID == "my-project"
PUBSUB_TOPIC_ID == "file-upload-info-topic"

\* publisher.topic_path(project, topic): "projects/{project}/topics/{topic}".
TopicPath(project, topic) == << "projects", project, "topics", topic >>

(***************************************************************************)
(* process_gcs_event up to the publish step: a function of the payload     *)
(***************************************************************************)

\* The log lines (print calls) of the handler.
Line(l) == [line |-> l]
ValueLine(l, v) == [line |-> l, value |-> v]
RawDataLine(d) == [line |-> "raw_data", data |-> d]
PublishedLine(id) == [line |-> "published", id |-> id]

\* A truth test that takes only None for no data.
TruthyNotNone(d) == d.k # "None"

\* bool(data), as `if not data` evaluates it.
Truthy(d) ==
  IF d.k = "None" THEN FALSE
  ELSE IF d.k = "dict" THEN Len(d.d.keys) > 0
  ELSE IF d.k = "bytes" THEN Len(d.b) > 0
  ELSE Len(d.s) > 0

\* The try block after json.loads: the payload, or JSONDecodeError.
NormalizeParsed(parsed) ==
  IF ~parsed.ok THEN [kind |-> "JSONDecodeError"] ELSE [kind |-> "ok", payload |-> parsed.v]

\* A try block that handles UnicodeDecodeError as it handles JSONDecodeError.
NormalizeDecodedAsJsonError(decoded) ==
  IF ~decoded.ok THEN [kind |-> "JSONDecodeError"] ELSE NormalizeParsed(Loads(decoded.text))

\* The try block after data.decode('utf-8'): UnicodeDecodeError is no
\* JSONDecodeError and reaches `except Exception`.
NormalizeDecoded(decoded) ==
  IF ~decoded.ok THEN [kind |-> "Exception"] ELSE NormalizeParsed(Loads(decoded.text))

\* A try block that decodes bytes as Latin-1: every byte is a character.
NormalizeLatin1(d) ==
  IF d.k = "dict" THEN [kind |-> "ok", payload |-> d.d]
  ELSE IF d.k = "bytes" THEN NormalizeDecoded([ok |-> TRUE, text |-> d.b])
  ELSE NormalizeDecoded([ok |-> TRUE, text |-> d.s])

\* The try block: the payload, or the except clause that ran.
Normalize(d) ==
  IF d.k = "dict" THEN [kind |-> "ok", payload |-> d.d]
  ELSE IF d.k = "bytes" THEN NormalizeDecoded(Utf8Decode(d.b))
  ELSE NormalizeDecoded([ok |-> TRUE, text |-> d.s])

\* A message_payload that carries the bucket as well.
MessagePayloadWithBucket(payload) ==
  PyDict(<< KeyFileName, KeyFileSize, KeyFileFormat, KeyBucket >>,
         << Get(payload, KeyName), Get(payload, KeySize), Get(payload, KeyContentType),
            Get(payload, KeyBucket) >>)

\* message_payload, built from payload.get of the three keys.
MessagePayload(payload) ==
  PyDict(<< KeyFileName, KeyFileSize, KeyFileFormat >>,
         << Get(payload, KeyName), Get(payload, KeySize), Get(payload, KeyContentType) >>)

\* json.dumps(message_payload).encode('utf-8').
MessageData(payload) == Utf8Encode(Dumps(MessagePayload(payload)))

NoPayload == [t |-> "unset"]

\* An except clause that prints the parse error alone.
JsonErrorLinesNoRaw(d) == << Line("received"), Line("json_error") >>

\* The lines of a handler that ends in `except json.JSONDecodeError`.
JsonErrorLines(d) == << Line("received"), Line("json_error"), RawDataLine(d) >>

\* Where the handler stands before its publish step ("returned", "raised"
\* for an exception that leaves the handler, "publish" when it goes on to
\* publish), what it logged, and its local variables.
Outcome(at, lines, p, m) == [pc |-> at, log |-> lines, payload |-> p, message_data |-> m]

\* The handler after the try block, n being what the block came to.
HandleNormalized(d, n) ==
  IF n.kind = "JSONDecodeError"
    THEN Outcome("returned", JsonErrorLines(d), NoPayload, <<>>)
  ELSE IF n.kind = "Exception"
    THEN Outcome("returned", << Line("received"), Line("unexpected_error") >>, NoPayload, <<>>)
  ELSE IF ~IsDict(n.payload)
    \* payload.get of a list, str, int, bool or None: AttributeError, outside any try
    THEN Outcome("raised", << Line("received") >>, n.payload, <<>>)
  ELSE Outcome("publish",
               << Line("received"),
                  ValueLine("file", Get(n.payload, KeyName)),
                  ValueLine("bucket", Get(n.payload, KeyBucket)),
                  ValueLine("size", Get(n.payload, KeySize)),
                  ValueLine("format", Get(n.payload, KeyContentType)) >>,
               n.payload, MessageData(n.payload))

\* The handler from its first line to the publish step.
Handle(d) ==
  IF ~Truthy(d)
    THEN Outcome("returned", << Line("received"), Line("no_data") >>, NoPayload, <<>>)
    ELSE HandleNormalized(d, Normalize(d))

(***************************************************************************)
(* State                                                                   *)
(***************************************************************************)

VARIABLES
  topic_path,    \* the module global topic_path
  pc,            \* per invocation: "idle", "publish", "result", "returned", "raised"
  data,          \* per invocation: the data payload of its event
  payload,       \* per invocation: the local payload
  message_data,  \* per invocation: the local message_data
  log,           \* per invocation: the lines it printed
  fault,         \* per invocation: where the queue failed it: "none", "publish", "result"
  arrivals,      \* the invocations in the order their events arrived
  calls,         \* the publisher.publish calls, in order
  messages       \* the messages the topic accepted, with their message ids, in order

vars == << topic_path, pc, data, payload, message_data, log, fault, arrivals, calls, messages >>

\* The number of concurrent invocations of the concurrent specification.
NumInvocations == 2

InitOf(I) ==
  /\ topic_path = TopicPath(PROJECT_ID, PUBSUB_TOPIC_ID)
  /\ pc = [i \in I |-> "idle"]
  /\ data = [i \in I |-> NoData]
  /\ payload = [i \in I |-> NoPayload]
  /\ message_data = [i \in I |-> <<>>]
  /\ log = [i \in I |-> <<>>]
  /\ fault = [i \in I |-> "none"]
  /\ arrivals = <<>>
  /\ calls = <<>>
  /\ messages = <<>>

\* Invocation i stands where the outcome h says.
Entered(i, h) ==
  /\ pc' = [pc EXCEPT ![i] = h.pc]
  /\ log' = [log EXCEPT ![i] = h.log]
  /\ payload' = [payload EXCEPT ![i] = h.payload]
  /\ message_data' = [message_data EXCEPT ![i] = h.message_data]

\* The runtime invokes the handler with an event whose data is d; the
\* handler runs to its publish step, to its return or to an exception.
Invoke(i, d) ==
  /\ pc[i] = "idle"
  /\ Entered(i, Handle(d))
  /\ data' = [data EXCEPT ![i] = d]
  /\ arrivals' = Append(arrivals, i)
  /\ UNCHANGED << topic_path, fault, calls, messages >>

\* A publish step that skips a body it has already published.
PublishDeduplicated(i) ==
  /\ pc[i] = "publish"
  /\ IF \E c \in 1..Len(calls) : calls[c].data = message_data[i]
       THEN pc' = [pc EXCEPT ![i] = "returned"] /\ UNCHANGED calls
       ELSE /\ calls' = Append(calls, [by |-> i, topic |-> topic_path, data |-> message_data[i]])
            /\ pc' = [pc EXCEPT ![i] = "result"]
  /\ UNCHANGED << topic_path, data, payload, message_data, log, fault, arrivals, messages >>

\* A publish step that sends the message_data of the latest event, as a
\* handler that kept it in a module global would.
PublishLatest(i) ==
  /\ pc[i] = "publish"
  /\ calls' = Append(calls, [by |-> i, topic |-> topic_path,
                             data |-> message_data[arrivals[Len(arrivals)]]])
  /\ pc' = [pc EXCEPT ![i] = "result"]
  /\ UNCHANGED << topic_path, data, payload, message_data, log, fault, arrivals, messages >>

\* publisher.publish(topic_path, message_data) returns a future.
Publish(i) ==
  /\ pc[i] = "publish"
  /\ calls' = Append(calls, [by |-> i, topic |-> topic_path, data |-> message_data[i]])
  /\ pc' = [pc EXCEPT ![i] = "result"]
  /\ UNCHANGED << topic_path, data, payload, message_data, log, fault, arrivals, messages >>

\* An except clause that goes back to the publish call.
PublishRaisesRetry(i) ==
  /\ pc[i] = "publish"
  /\ calls' = Append(calls, [by |-> i, topic |-> topic_path, data |-> message_data[i]])
  /\ fault' = [fault EXCEPT ![i] = "publish"]
  /\ log' = [log EXCEPT ![i] = Append(@, Line("publish_failed"))]
  /\ UNCHANGED << pc, topic_path, data, payload, message_data, arrivals, messages >>

\* publisher.publish raises: the except clause logs and the handler returns.
PublishRaises(i) ==
  /\ pc[i] = "publish"
  /\ calls' = Append(calls, [by |-> i, topic |-> topic_path, data |-> message_data[i]])
  /\ fault' = [fault EXCEPT ![i] = "publish"]
  /\ log' = [log EXCEPT ![i] = Append(@, Line("publish_failed"))]
  /\ pc' = [pc EXCEPT ![i] = "returned"]
  /\ UNCHANGED << topic_path, data, payload, message_data, arrivals, messages >>

\* The call of i that awaits its acknowledgment.
PendingCall(i) == CHOOSE c \in 1..Len(calls) : calls[c].by = i

\* future.result() returns the message id the topic gave the message.
Result(i) ==
  /\ pc[i] = "result"
  /\ messages' = Append(messages, [id |-> Len(messages) + 1, by |-> i,
                                    topic |-> calls[PendingCall(i)].topic,
                                    data |-> calls[PendingCall(i)].data])
  /\ log' = [log EXCEPT ![i] = Append(@, PublishedLine(Len(messages) + 1))]
  /\ pc' = [pc EXCEPT ![i] = "returned"]
  /\ UNCHANGED << topic_path, data, payload, message_data, fault, arrivals, calls >>

\* An except clause that publishes again when the wait fails.
ResultRaisesRetry(i) ==
  /\ pc[i] = "result"
  /\ fault' = [fault EXCEPT ![i] = "result"]
  /\ log' = [log EXCEPT ![i] = Append(@, Line("publish_failed"))]
  /\ pc' = [pc EXCEPT ![i] = "publish"]
  /\ UNCHANGED << topic_path, data, payload, message_data, arrivals, calls, messages >>

\* future.result() raises: the except clause logs and the handler returns.
ResultRaises(i) ==
  /\ pc[i] = "result"
  /\ fault' = [fault EXCEPT ![i] = "result"]
  /\ log' = [log EXCEPT ![i] = Append(@, Line("publish_failed"))]
  /\ pc' = [pc EXCEPT ![i] = "returned"]
  /\ UNCHANGED << topic_path, data, payload, message_data, arrivals, calls, messages >>

(***************************************************************************)
(* The events the runtime delivers                                         *)
(***************************************************************************)

\* The four fields of a storage notification, with the values of one object.
Fields ==
  << << KeyName, PyStr(Str(<< "a", ".", "j", "p", "g" >>)) >>,
     << KeyBucket, PyStr(Str(<< "b" >>)) >>,
     << KeySize, PyStr(Str(<< "1", "0", "2", "4" >>)) >>,
     << KeyContentType, PyStr(Str(<< "i", "m", "a", "g", "e", "/", "j", "p", "e", "g" >>)) >> >>

\* The notification that holds the fields S, in the order of Fields.
RECURSIVE MappingFrom(_, _)
MappingFrom(S, k) ==
  IF k = 0 THEN EmptyDict
  ELSE IF k \in S THEN SetItem(MappingFrom(S, k - 1), Fields[k][1], Fields[k][2])
  ELSE MappingFrom(S, k - 1)

MappingOf(S) == MappingFrom(S, Len(Fields))

\* A notification whose values are no plain ASCII strings: a name with a
\* quote, a backslash and a non-ASCII letter, a size that is a number, an
\* explicit null content type.
OddMapping ==
  PyDict(<< KeyName, KeySize, KeyContentType >>,
         << PyStr(<< 233, Ord("\""), Ord("\\"), 8364 >>), PyInt(1024), None >>)

\* A notification whose name is sent as raw UTF-8, not as an escape.
RawMapping == PyDict(<< KeyName >>, << PyStr(<< 233 >>) >>)
RawText == Str(<< "{", "\"", "n", "a", "m", "e", "\"", ":", "\"" >>) \o << 233 >> \o Str(<< "\"", "}" >>)

Mappings == {MappingOf(S) : S \in SUBSET (1..Len(Fields))} \cup {OddMapping, RawMapping}

\* The JSON texts that encode the mapping M.
EncodingsOf(M) == {Dumps(M)} \cup (IF M = RawMapping THEN {RawText} ELSE {})

\* Texts that are not JSON.
MalformedTexts ==
  { Str(<< "{", "b", "a", "d" >>),
    Str(<< " " >>),
    Str(<< "{", "\"", "n", "a", "m", "e", "\"", ":", " ", "\"", "a", "\"" >>),
    Str(<< "{", "\"", "n", "a", "m", "e", "\"", ":", " ", "\"", "a", "\"", ",", "}" >>),
    Str(<< "{", "'", "n", "a", "m", "e", "'", ":", " ", "1", "}" >>) }

\* Texts that are JSON and decode to no mapping.
NonMappingTexts ==
  { Str(<< "[", "1", "]" >>),
    Str(<< "[", "]" >>),
    Str(<< "1" >>),
    Str(<< "\"", "x", "\"" >>),
    Str(<< "n", "u", "l", "l" >>) }

\* Bytes that are not UTF-8: a byte that starts nothing, a truncated
\* sequence, an overlong form.
UndecodableBytes == { << 255 >>, << Ord("{"), 195 >>, << 192, 128 >> }

Texts == UNION {EncodingsOf(M) : M \in Mappings} \cup MalformedTexts \cup NonMappingTexts

\* None, and the empty dict, bytes and str.
EmptyData == { NoData, DictData(EmptyDict), BytesData(<<>>), StrData(<<>>) }

AllData ==
  EmptyData
    \cup {DictData(M) : M \in Mappings}
    \cup {StrData(t) : t \in Texts}
    \cup {BytesData(Utf8Encode(t)) : t \in Texts}
    \cup {BytesData(b) : b \in UndecodableBytes}

\* The events of the concurrent specification: one of each outcome.
ConcurrentData ==
  { DictData(MappingOf(1..Len(Fields))),
    BytesData(Utf8Encode(Dumps(MappingOf({1})))),
    StrData(Str(<< "{", "b", "a", "d" >>)),
    StrData(Str(<< "[", "1", "]" >>)),
    NoData }

(***************************************************************************)
(* Specifications                                                          *)
(***************************************************************************)

\* One invocation, over every event of AllData.
Init == InitOf({1})

Next ==
  \/ \E i \in DOMAIN pc : \E d \in AllData : Invoke(i, d)
  \/ \E i \in DOMAIN pc : Publish(i)
  \/ \E i \in DOMAIN pc : PublishRaises(i)
  \/ \E i \in DOMAIN pc : Result(i)
  \/ \E i \in DOMAIN pc : ResultRaises(i)

Spec == Init /\ [][Next]_vars

\* NumInvocations invocations that the runtime runs concurrently.
InitConcurrent == InitOf(1..NumInvocations)

NextConcurrent ==
  \/ \E i \in DOMAIN pc : \E d \in ConcurrentData : Invoke(i, d)
  \/ \E i \in DOMAIN pc : Publish(i)
  \/ \E i \in DOMAIN pc : PublishRaises(i)
  \/ \E i \in DOMAIN pc : Result(i)
  \/ \E i \in DOMAIN pc : ResultRaises(i)

SpecConcurrent == InitConcurrent /\ [][NextConcurrent]_vars

(***************************************************************************)
(* What the properties speak of                                            *)
(***************************************************************************)

\* The publish calls of invocation i.
CallsBy(i) == {c \in 1..Len(calls) : calls[c].by = i}

\* The messages of invocation i that the topic accepted.
MessagesBy(i) == {m \in 1..Len(messages) : messages[m].by = i}

\* Whether invocation i printed a line of kind l.
HasLine(i, l) == \E k \in 1..Len(log[i]) : log[i][k].line = l

\* Whether invocation i printed the raw input d.
HasRawData(i, d) == \E k \in 1..Len(log[i]) : log[i][k] = RawDataLine(d)

\* The summary record of the mapping M: three keys, each the value of its
\* source key in M, None where M has no such key.
Summary(M) ==
  PyDict(<< KeyFileName, KeyFileSize, KeyFileFormat >>,
         << IF HasKey(M, KeyName) THEN M.val[IndexOf(M.keys, KeyName)] ELSE None,
            IF HasKey(M, KeySize) THEN M.val[IndexOf(M.keys, KeySize)] ELSE None,
            IF HasKey(M, KeyContentType) THEN M.val[IndexOf(M.keys, KeyContentType)] ELSE None >>)

\* Whether the parsed body r is the summary record of M, with no other key.
ParsedIsSummary(r, M) == r.ok /\ IsDict(r.v) /\ Len(r.v.keys) = 3 /\ DictEq(r.v, Summary(M))

\* Whether the decoded bytes, parsed as JSON, are the summary record of M.
DecodedIsSummary(decoded, M) == decoded.ok /\ ParsedIsSummary(Loads(decoded.text), M)

\* Whether the bytes b, decoded as UTF-8 JSON, are the summary record of M.
BodyIs(b, M) == DecodedIsSummary(Utf8Decode(b), M)

\* Invocation i came to its publish step.
ReachedPublish(i) == pc[i] \in {"publish", "result"} \/ CallsBy(i) # {}

\* Invocation i, past its publish step, made one publish call, with its message_data.
OneCall(i) ==
  pc[i] \in {"result", "returned"} =>
    /\ Cardinality(CallsBy(i)) = 1
    /\ \A c \in CallsBy(i) : calls[c].data = message_data[i]

\* Invocation i publishes the summary record of M: it does not end before
\* its publish step, its message is the record, and it makes one call.
PublishesSummary(i, M) ==
  /\ pc[i] \in {"publish", "result", "returned"}
  /\ BodyIs(message_data[i], M)
  /\ OneCall(i)

\* Invocation i returned (or stands before its return) without a publish call.
NoOp(i) == pc[i] = "returned" /\ CallsBy(i) = {} /\ fault[i] = "none"

\* The str and the bytes payloads that encode the mapping M.
EncodedData(M) ==
  {StrData(t) : t \in EncodingsOf(M)} \cup {BytesData(Utf8Encode(t)) : t \in EncodingsOf(M)}

\* Payloads that are UTF-8 text and not JSON.
MalformedData ==
  {StrData(t) : t \in MalformedTexts} \cup {BytesData(Utf8Encode(t)) : t \in MalformedTexts}

\* Payloads that are bytes and not UTF-8.
UndecodableData == {BytesData(b) : b \in UndecodableBytes}

\* Every invocation has ended.
AllEnded == \A i \in DOMAIN pc : pc[i] \in {"returned", "raised"}

(***************************************************************************)
(* C1                                                                      *)
(***************************************************************************)

\* C1, as stated: for every payload that is a mapping, whichever of name,
\* size, contentType it holds, the handler publishes exactly one message,
\* whose body has exactly the keys fileName, fileSize, fileFormat with the
\* payload's name, size, contentType, null for an absent key.
C1_EveryMapping ==
  \A i \in DOMAIN pc :
    (pc[i] # "idle" /\ data[i].k = "dict") => PublishesSummary(i, data[i].d)

\* C1, amended: the same for every mapping that is not empty; for the
\* empty mapping the handler returns without a publish call.
C1_NonEmptyMapping ==
  \A i \in DOMAIN pc :
    (pc[i] # "idle" /\ data[i].k = "dict") =>
      IF Len(data[i].d.keys) > 0 THEN PublishesSummary(i, data[i].d) ELSE NoOp(i)

\* A mapping with bucket alone was published and acknowledged: all three nulls.
C1_Witness ==
  \E i \in DOMAIN pc :
    /\ data[i] = DictData(MappingOf({2}))
    /\ pc[i] = "returned" /\ fault[i] = "none"
    /\ \E m \in MessagesBy(i) : BodyIs(messages[m].data, EmptyDict)

(***************************************************************************)
(* C2                                                                      *)
(***************************************************************************)

\* Invocation i stands as the handler does when M is given as a mapping.
SameAsDirect(i, M) ==
  /\ ReachedPublish(i) <=> Handle(DictData(M)).pc = "publish"
  /\ message_data[i] = Handle(DictData(M)).message_data

\* C2, as stated: a payload that is the JSON encoding of a mapping M, as
\* text or as UTF-8 bytes, publishes the body the mapping M itself
\* publishes, the summary record of M.
C2_SameAsMapping ==
  \A i \in DOMAIN pc : \A M \in Mappings :
    (pc[i] # "idle" /\ data[i] \in EncodedData(M)) =>
      (SameAsDirect(i, M) /\ PublishesSummary(i, M))

\* C2, amended: such a payload publishes the summary record of M, for
\* every M; it is what M itself publishes when M is not empty.
C2_EncodedMapping ==
  \A i \in DOMAIN pc : \A M \in Mappings :
    (pc[i] # "idle" /\ data[i] \in EncodedData(M)) =>
      /\ PublishesSummary(i, M)
      /\ Len(M.keys) > 0 => SameAsDirect(i, M)

\* The bytes of a notification with a raw UTF-8 name were published and
\* acknowledged.
C2_Witness ==
  \E i \in DOMAIN pc :
    /\ data[i] = BytesData(Utf8Encode(RawText))
    /\ pc[i] = "returned" /\ fault[i] = "none"
    /\ \E m \in MessagesBy(i) : BodyIs(messages[m].data, RawMapping)

(***************************************************************************)
(* C3                                                                      *)
(***************************************************************************)

\* C3: for a null or empty payload the handler makes no publish call,
\* returns normally and logs that no data was found.
C3_NoData ==
  \A i \in DOMAIN pc :
    (pc[i] # "idle" /\ data[i] \in EmptyData) => (NoOp(i) /\ HasLine(i, "no_data"))

\* The handler returned on empty bytes.
C3_Witness ==
  \E i \in DOMAIN pc : data[i] = BytesData(<<>>) /\ pc[i] = "returned" /\ HasLine(i, "no_data")

(***************************************************************************)
(* C4                                                                      *)
(***************************************************************************)

C5_PublishFailure ==
  \A i \in DOMAIN pc :
    fault[i] # "none" =>
      /\ pc[i] = "returned"
      /\ HasLine(i, "publish_failed")
      /\ ~HasLine(i, "published")
      /\ Cardinality(CallsBy(i)) = 1
      /\ MessagesBy(i) = {}

\* The wait for the acknowledgment failed.
C5_Witness == \E i \in DOMAIN pc : fault[i] = "result" /\ pc[i] = "returned"

(***************************************************************************)
(* C6                                                                      *)
(***************************************************************************)

\* C6: for every payload that is null, a mapping, bytes or text, JSON
\* that decodes to no mapping included, the invocation ends by returning:
\* no exception leaves the handler.
C6_NeverRaises == \A i \in DOMAIN pc : pc[i] # "raised"

(***************************************************************************)
(* C7                                                                      *)
(***************************************************************************)

Normalized == {i \in DOMAIN pc : payload[i].t = "dict"}

\* C8: an invocation makes at most one publish call, and only after its
\* payload was normalized to a mapping; the calls are no more than the
\* invocations, they are the normalized invocations past their publish
\* step, and once all have ended as many as the normalized invocations.
C8_AtMostOnePublish ==
  /\ \A i \in DOMAIN pc : Cardinality(CallsBy(i)) <= 1
  /\ \A i \in DOMAIN pc : CallsBy(i) # {} => i \in Normalized
  /\ Len(calls) <= Cardinality({i \in DOMAIN pc : pc[i] # "idle"})
  /\ Len(calls) = Cardinality({i \in Normalized : pc[i] \in {"result", "returned"}})
  /\ AllEnded => Len(calls) = Cardinality(Normalized)

\* All have ended, one with a call and one, whose JSON was no mapping,
\* with an exception and without a call.
C8_Witness ==
  /\ AllEnded
  /\ Len(calls) > 0
  /\ \E i \in DOMAIN pc : pc[i] = "raised" /\ CallsBy(i) = {}

(***************************************************************************)
(* C9                                                                      *)
(***************************************************************************)

\* Invocation i published and its message was acknowledged.
Acknowledged(i) == pc[i] = "returned" /\ fault[i] = "none" /\ payload[i].t = "dict"

\* C9: two invocations with the same event, the topic accepting both,
\* make two publish calls and yield two messages with distinct message ids
\* and the same body.
C9_NoDeduplication ==
  \A i, j \in DOMAIN pc :
    (i # j /\ data[i] = data[j] /\ Acknowledged(i) /\ Acknowledged(j)) =>
      /\ Cardinality(CallsBy(i) \cup CallsBy(j)) = 2
      /\ Cardinality(MessagesBy(i)) = 1 /\ Cardinality(MessagesBy(j)) = 1
      /\ \A m \in MessagesBy(i) : \A n \in MessagesBy(j) :
           /\ m # n
           /\ messages[m].id # messages[n].id
           /\ messages[m].data = messages[n].data

\* Two invocations with the same event were both acknowledged.
C9_Witness ==
  \E i, j \in DOMAIN pc :
    i # j /\ data[i] = data[j] /\ Acknowledged(i) /\ Acknowledged(j) /\ Len(messages) >= 2

(***************************************************************************)
(* C10                                                                     *)
(***************************************************************************)

\* The mapping the payload d of a concurrent event holds or encodes.
MappingIn(d) ==
  IF d.k = "dict" THEN d.d
  ELSE CHOOSE M \in {MappingOf({1})} : d = BytesData(Utf8Encode(Dumps(M)))

\* C10: in every interleaving the topic path is the one set at start,
\* every call and every message goes to it, the body an invocation
\* publishes is the summary record of its own payload, and a message the
\* topic accepted is the one its own invocation published.
C10_Independent ==
  /\ topic_path = TopicPath(PROJECT_ID, PUBSUB_TOPIC_ID)
  /\ \A c \in 1..Len(calls) :
       /\ calls[c].topic = TopicPath(PROJECT_ID, PUBSUB_TOPIC_ID)
       /\ BodyIs(calls[c].data, MappingIn(data[calls[c].by]))
  /\ \A m \in 1..Len(messages) :
       /\ messages[m].topic = TopicPath(PROJECT_ID, PUBSUB_TOPIC_ID)
       /\ \E c \in CallsBy(messages[m].by) : calls[c].data = messages[m].data

\* The messages of two events with different payloads reached the topic
\* in the order opposite to the arrival of the events.
C10_Witness ==
  /\ Len(arrivals) >= 2 /\ Len(messages) >= 2
  /\ messages[1].by = arrivals[2] /\ messages[2].by = arrivals[1]
  /\ data[arrivals[1]] # data[arrivals[2]]

====
